---- MODULE Spec2Model ----
(***************************************************************************)
(* Model of trello-app/src/app/(marketing)/layout.tsx: the MarketingLayout *)
(* component, a function from props to a two-element React tree            *)
(*                                                                         *)
(*   <div className="bg-slate-100 h-full">                                 *)
(*     <main className="pt-40 pb-20 bg-slate-100">{children}</main>        *)
(*   </div>                                                                *)
(*                                                                         *)
(* The host renders several instances of the component; an invocation     *)
(* binds its props (Call) and then evaluates the body and returns (Render).*)
(* Every JSX element expression creates a new element object, modelled by  *)
(* an address taken from a bump allocator (nextAddr).                      *)
(***************************************************************************)
EXTENDS Integers, Sequences, FiniteSets, TLC

\* Longest children array handed to the component.
MaxLen == 3
\* Number of invocations made in one behaviour.
MaxCalls == 3

\* Component instances the host renders concurrently.
Instances == {"page1", "page2"}

----------------------------------------------------------------------------
(* React.ReactNode, the type of `children` (layout.tsx line 3): absent, a  *)
(* single node, or an ordered array of nodes.  The nodes are opaque.       *)

NodeIds == {"NodeA", "NodeB", "NodeC"}

Undefined == [typeof |-> "undefined"]

Node(id) == [typeof |-> "node", id |-> id]

Nodes == {Node(id) : id \in NodeIds}

NodeArray(items) == [typeof |-> "array", items |-> items]

\* The arrays of at most n nodes of S; the siblings of one array are
\* different nodes.
SeqsUpTo(S, n) ==
    {s \in UNION {[1..k -> S] : k \in 0..n} :
        \A a, b \in DOMAIN s : a # b => s[a] # s[b]}

ReactNode == {Undefined} \cup Nodes \cup {NodeArray(s) : s \in SeqsUpTo(Nodes, MaxLen)}

\* Names of properties other than `children` that a caller may put on the
\* props object; MarketingLayoutProps declares none of them.
OtherPropNames == {"dark"}

\* The props object of one invocation: `children` and the set of other
\* properties present on it.
MarketingLayoutProps == [children : ReactNode, rest : SUBSET OtherPropNames]

NoProps == [children |-> Undefined, rest |-> {}]

NoResult == [typeof |-> "none"]

----------------------------------------------------------------------------
(* The two className string literals, character by character.              *)

\* "bg-slate-100 h-full"
OuterClassName ==
    << "b","g","-","s","l","a","t","e","-","1","0","0"," ",
       "h","-","f","u","l","l" >>

\* "pt-40 pb-20 bg-slate-100"
InnerClassName ==
    << "p","t","-","4","0"," ",
       "p","b","-","2","0"," ",
       "b","g","-","s","l","a","t","e","-","1","0","0" >>

\* A JSX element expression: a new element object at address addr.
Element(addr, type, className, children) ==
    [typeof |-> "react.element", addr |-> addr, type |-> type,
     props |-> [className |-> className, children |-> children]]

\* Variants of the component body, each with one defect.

\* <main className="..." /> : the children are not placed.
MarketingLayout_DropsChildren(props, addr) ==
    Element(addr + 1, "div", OuterClassName,
            Element(addr, "main", InnerClassName, Undefined))

\* if (!children) return null;
MarketingLayout_NullWhenAbsent(props, addr) ==
    IF props.children = Undefined
    THEN [typeof |-> "null"]
    ELSE Element(addr + 1, "div", OuterClassName,
                 Element(addr, "main", InnerClassName, props.children))

\* <main className="pt-40 pb-20">
MarketingLayout_InnerNoBackground(props, addr) ==
    Element(addr + 1, "div", OuterClassName,
            Element(addr, "main",
                    << "p","t","-","4","0"," ","p","b","-","2","0" >>,
                    props.children))

\* className={children ? "pt-40 pb-20 bg-slate-100" : "bg-slate-100"}
MarketingLayout_PaddingByPayload(props, addr) ==
    Element(addr + 1, "div", OuterClassName,
            Element(addr, "main",
                    IF props.children = Undefined
                    THEN << "b","g","-","s","l","a","t","e","-","1","0","0" >>
                    ELSE InnerClassName,
                    props.children))

\* A module-level "first render" flag: later calls render <section>.
MarketingLayout_FirstCallDiffers(props, addr) ==
    Element(addr + 1, "div", OuterClassName,
            Element(addr, IF addr = 0 THEN "main" ELSE "section",
                    InnerClassName, props.children))

\* React.Children.only(children): throws unless given a single node.
MarketingLayout_OnlyChild(props, addr) ==
    IF props.children.typeof = "array"
    THEN [typeof |-> "error"]
    ELSE Element(addr + 1, "div", OuterClassName,
                 Element(addr, "main", InnerClassName, props.children))

\* The wrapper elements are created once at module level and reused.
MarketingLayout_Hoisted(props, addr) ==
    Element(1, "div", OuterClassName,
            Element(0, "main", InnerClassName, props.children))

\* <main className="pt-20 pb-40 bg-slate-100">
MarketingLayout_SwappedPadding(props, addr) ==
    Element(addr + 1, "div", OuterClassName,
            Element(addr, "main",
                    << "p","t","-","2","0"," ",
                       "p","b","-","4","0"," ",
                       "b","g","-","s","l","a","t","e","-","1","0","0" >>,
                    props.children))

\* ({ children, ...rest }) => <div className="..." {...rest}>
MarketingLayout_SpreadsRest(props, addr) ==
    [typeof |-> "react.element", addr |-> addr + 1, type |-> "div",
     props |-> [className |-> OuterClassName,
                children |-> Element(addr, "main", InnerClassName, props.children),
                rest |-> props.rest]]

\* The component body (lines 6-13): destructures `children` from props and
\* returns div > main > children.  addr is the first free address; the
\* inner element is created first (it is an argument of the outer one).
MarketingLayout(props, addr) ==
    Element(addr + 1, "div", OuterClassName,
            Element(addr, "main", InnerClassName, props.children))

----------------------------------------------------------------------------
VARIABLES
    pc,        \* pc[i]: "idle", "called" (props bound) or "returned"
    props,     \* props[i]: the props object of instance i's invocation
    result,    \* result[i]: what the invocation returned
    nextAddr   \* first free address of the element allocator

vars == << pc, props, result, nextAddr >>

InFlight == {i \in Instances : pc[i] = "called"}

Init ==
    /\ pc = [i \in Instances |-> "idle"]
    /\ props = [i \in Instances |-> NoProps]
    /\ result = [i \in Instances |-> NoResult]
    /\ nextAddr = 0

\* The host invokes the component for instance i with props p (first render
\* or re-render; a previous result of the instance is dropped).
Call(i, p) ==
    /\ pc[i] \in {"idle", "returned"}
    /\ nextAddr + 2 * (Cardinality(InFlight) + 1) <= 2 * MaxCalls
    /\ pc' = [pc EXCEPT ![i] = "called"]
    /\ props' = [props EXCEPT ![i] = p]
    /\ result' = [result EXCEPT ![i] = NoResult]
    /\ UNCHANGED nextAddr

Reverse(s) == [k \in 1..Len(s) |-> s[Len(s) + 1 - k]]

\* Render with a defect: an array payload is reversed in place
\* (children.reverse()) before it is placed.
Render_ReversesInPlace(i) ==
    LET c == props[i].children
        p == IF c.typeof = "array"
             THEN [props[i] EXCEPT !.children = NodeArray(Reverse(c.items))]
             ELSE props[i]
    IN  /\ pc[i] = "called"
        /\ props' = [props EXCEPT ![i] = p]
        /\ result' = [result EXCEPT ![i] = MarketingLayout(p, nextAddr)]
        /\ nextAddr' = nextAddr + 2
        /\ pc' = [pc EXCEPT ![i] = "returned"]

\* The body runs to its return statement: two elements are created.
Render(i) ==
    /\ pc[i] = "called"
    /\ result' = [result EXCEPT ![i] = MarketingLayout(props[i], nextAddr)]
    /\ nextAddr' = nextAddr + 2
    /\ pc' = [pc EXCEPT ![i] = "returned"]
    /\ UNCHANGED props

Next ==
    \E i \in Instances :
        \/ \E p \in MarketingLayoutProps : Call(i, p)
        \/ Render(i)

Spec == Init /\ [][Next]_vars

----------------------------------------------------------------------------
(* Reading a returned tree.                                                *)

IsElement(v) == v.typeof = "react.element"

\* The class tokens of a className string: maximal runs of non-space
\* characters, in order.
RECURSIVE Split(_, _, _)
Split(s, i, cur) ==
    IF i > Len(s)
    THEN IF cur = << >> THEN << >> ELSE << cur >>
    ELSE IF s[i] = " "
         THEN (IF cur = << >> THEN << >> ELSE << cur >>) \o Split(s, i + 1, << >>)
         ELSE Split(s, i + 1, Append(cur, s[i]))

\* The directive set a className attribute puts on its element.
ClassList(className) ==
    LET t == Split(className, 1, << >>) IN {t[k] : k \in DOMAIN t}

\* Position of the first "-" of a class token (Len + 1 when it has none).
RECURSIVE DashAt(_, _)
DashAt(token, i) ==
    IF i > Len(token) \/ token[i] = "-" THEN i ELSE DashAt(token, i + 1)

\* "pt-40" names the utility "pt" ...
Utility(token) == SubSeq(token, 1, DashAt(token, 1) - 1)

\* ... with the argument "40".
Argument(token) == SubSeq(token, DashAt(token, 1) + 1, Len(token))

Digits == {"0", "1", "2", "3", "4", "5", "6", "7", "8", "9"}

DigitValue ==
    ("0" :> 0) @@ ("1" :> 1) @@ ("2" :> 2) @@ ("3" :> 3) @@ ("4" :> 4) @@
    ("5" :> 5) @@ ("6" :> 6) @@ ("7" :> 7) @@ ("8" :> 8) @@ ("9" :> 9)

IsNumeral(ds) == ds # << >> /\ \A k \in DOMAIN ds : ds[k] \in Digits

RECURSIVE ParseInt(_)
ParseInt(ds) ==
    IF ds = << >> THEN 0
    ELSE ParseInt(SubSeq(ds, 1, Len(ds) - 1)) * 10 + DigitValue[ds[Len(ds)]]

\* The spacing-scale values of the class tokens of one utility.
ScaleValues(className, utility) ==
    {ParseInt(Argument(t)) :
        t \in {u \in ClassList(className) :
                 Utility(u) = utility /\ IsNumeral(Argument(u))}}

\* The element objects of a returned tree (the payload is opaque).
RECURSIVE Addrs(_)
Addrs(v) ==
    IF IsElement(v) THEN {v.addr} \cup Addrs(v.props.children) ELSE {}

\* A returned tree up to the identity of its element objects.
RECURSIVE Structure(_)
Structure(v) ==
    IF IsElement(v)
    THEN [typeof |-> v.typeof, type |-> v.type,
          props |-> [v.props EXCEPT !.children = Structure(v.props.children)]]
    ELSE v

Returned == {i \in Instances : pc[i] = "returned"}

\* The directive tokens the layout is specified to carry.
BgSlate100 == << "b","g","-","s","l","a","t","e","-","1","0","0" >>
HFull == << "h","-","f","u","l","l" >>
Pt40 == << "p","t","-","4","0" >>
Pb20 == << "p","b","-","2","0" >>

\* Depth of wrapper elements above the payload.
RECURSIVE Depth(_)
Depth(v) == IF IsElement(v) THEN 1 + Depth(v.props.children) ELSE 0

\* The returned tree is div > main: both are element objects.
TwoLevels(i) ==
    /\ IsElement(result[i])
    /\ result[i].type = "div"
    /\ IsElement(result[i].props.children)
    /\ result[i].props.children.type = "main"

Outer(i) == result[i]
Inner(i) == result[i].props.children

OuterDirectives == {BgSlate100, HFull}
InnerDirectives == {Pt40, Pb20, BgSlate100}

----------------------------------------------------------------------------
\* C1: for every payload p (absent, one node, an ordered array of nodes) the
\* returned tree has exactly two levels: the outer div's only child is the
\* one inner main, and main's only slot holds p itself, the same value with
\* the same elements in the same order.
C1_TwoLevelsHoldingPayload ==
    \A i \in Returned :
        /\ TwoLevels(i)
        /\ Depth(result[i]) = 2
        /\ Inner(i).props.children = props[i].children

\* The array [NodeA, NodeB, NodeC] has been wrapped, in that order.
C1_Witness ==
    \E i \in Returned :
        /\ props[i].children =
               NodeArray(<< Node("NodeA"), Node("NodeB"), Node("NodeC") >>)
        /\ TwoLevels(i)
        /\ Inner(i).props.children.items[1] = Node("NodeA")
        /\ Inner(i).props.children.items[2] = Node("NodeB")
        /\ Inner(i).props.children.items[3] = Node("NodeC")

\* C2: with children absent (undefined) or empty the full tree is still
\* returned: the div and the main are both present, each with its fixed
\* directives, and main's slot holds the empty payload.
C2_EmptyPayloadKeepsChrome ==
    \A i \in Returned :
        props[i].children \in {Undefined, NodeArray(<< >>)} =>
            /\ TwoLevels(i)
            /\ ClassList(Outer(i).props.className) = OuterDirectives
            /\ ClassList(Inner(i).props.className) = InnerDirectives
            /\ Inner(i).props.children = props[i].children

\* A call with children undefined has returned its tree.
C2_Witness ==
    \E i \in Returned :
        /\ props[i].children = Undefined
        /\ TwoLevels(i)
        /\ Inner(i).props.children = Undefined

\* C3: the div carries exactly {bg-slate-100, h-full}, the main exactly
\* {pt-40, pb-20, bg-slate-100}, neither element carries anything but its
\* className and children, and the two background directives are the same.
C3_ExactDirectives ==
    \A i \in Returned :
        /\ TwoLevels(i)
        /\ DOMAIN Outer(i).props = {"className", "children"}
        /\ DOMAIN Inner(i).props = {"className", "children"}
        /\ LET outer == ClassList(Outer(i).props.className)
               inner == ClassList(Inner(i).props.className)
               innerBg == {t \in inner : Utility(t) = << "b","g" >>}
           IN  /\ outer = OuterDirectives
               /\ inner = InnerDirectives
               /\ innerBg = {t \in outer : Utility(t) = << "b","g" >>}
               /\ innerBg # {}

\* A tree has been returned whose two className strings split into more
\* than one token each.
C3_Witness ==
    \E i \in Returned :
        /\ TwoLevels(i)
        /\ Cardinality(ClassList(Outer(i).props.className)) = 2
        /\ Cardinality(ClassList(Inner(i).props.className)) = 3

\* C4: the directive sets of the div and of the main are the same in any two
\* returned trees, whatever the two payloads.
C4_DirectiveConstancy ==
    \A i, j \in Returned :
        /\ TwoLevels(i) /\ TwoLevels(j)
        /\ ClassList(Outer(i).props.className) = ClassList(Outer(j).props.className)
        /\ ClassList(Inner(i).props.className) = ClassList(Inner(j).props.className)

\* Two trees are held at once, one for an absent payload and one for an
\* array.
C4_Witness ==
    \E i, j \in Returned :
        /\ props[i].children = Undefined
        /\ props[j].children.typeof = "array"
        /\ props[j].children.items # << >>
        /\ TwoLevels(i) /\ TwoLevels(j)

\* C5: calls on the same payload return structurally equal trees, however
\* many calls (and on which payloads) were made before each of them.
C5_SamePayloadSameTree ==
    \A i, j \in Returned :
        props[i].children = props[j].children =>
            Structure(result[i]) = Structure(result[j])

\* Two calls on the same node have returned, the later one after at least
\* two other invocations (so at least one call came between them).
C5_Witness ==
    \E i, j \in Returned :
        /\ i # j
        /\ props[i].children = props[j].children
        /\ props[i].children \in Nodes
        /\ IsElement(result[i]) /\ IsElement(result[j])
        /\ result[i].addr - result[j].addr > 2

\* C6: there is no error outcome: a call whose props are bound can always
\* take its one step, and what it returns is the two-level tree, for every
\* payload.
C6_Total ==
    \A i \in Instances :
        /\ pc[i] \in {"idle", "called", "returned"}
        /\ pc[i] = "called" => ENABLED Render(i)
        /\ pc[i] = "returned" => result[i].typeof = "react.element" /\ TwoLevels(i)
        /\ pc[i] # "returned" => result[i] = NoResult

\* A call on an array of different nodes has returned while another call on
\* an absent payload has too.
C6_Witness ==
    \E i, j \in Returned :
        /\ props[i].children.typeof = "array"
        /\ \E a, b \in DOMAIN props[i].children.items :
               props[i].children.items[a] # props[i].children.items[b]
        /\ props[j].children = Undefined
        /\ IsElement(result[i]) /\ IsElement(result[j])

\* C7: the step in which a call returns leaves every props object (so the
\* payload) exactly as it was, and changes nothing of any other invocation.
C7_NoMutation ==
    [][ \A i \in Instances :
          (pc[i] = "called" /\ pc'[i] = "returned") =>
              /\ props' = props
              /\ \A j \in Instances \ {i} :
                     /\ pc'[j] = pc[j]
                     /\ result'[j] = result[j] ]_vars

\* A call on an array of two different nodes has returned while the other
\* instance holds a result of its own.
C7_Witness ==
    \E i, j \in Returned :
        /\ i # j
        /\ props[i].children.typeof = "array"
        /\ Len(props[i].children.items) = 2
        /\ props[i].children.items[1] # props[i].children.items[2]
        /\ IsElement(result[i]) /\ IsElement(result[j])
        /\ result[i].addr > result[j].addr

\* C8: with several invocations in any interleaving each returned tree holds
\* its own payload, equals what the call returns when run alone, and is made
\* of element objects no other tree has: allocated before nextAddr, and
\* shared with no other invocation's tree.
C8_Independent ==
    /\ \A i \in Returned :
           /\ TwoLevels(i)
           /\ Inner(i).props.children = props[i].children
           /\ Structure(result[i]) = Structure(MarketingLayout(props[i], 0))
           /\ Cardinality(Addrs(result[i])) = 2
           /\ \A a \in Addrs(result[i]) : a < nextAddr
    /\ \A i, j \in Returned :
           i # j => Addrs(result[i]) \cap Addrs(result[j]) = {}

\* Two instances hold trees for different, non-absent payloads, and the
\* instance called with the other payload is being called again.
C8_Witness ==
    \E i, j \in Instances :
        /\ i # j
        /\ pc[i] = "returned" /\ pc[j] = "called"
        /\ props[i].children # props[j].children
        /\ props[i].children # Undefined
        /\ props[j].children # Undefined
        /\ nextAddr >= 4

\* C9: the main's top padding is larger than its bottom padding: the scale
\* value of its pt- directive (40) exceeds that of its pb- directive (20).
C9_TopPaddingLarger ==
    \A i \in Returned :
        /\ TwoLevels(i)
        /\ LET top == ScaleValues(Inner(i).props.className, << "p","t" >>)
               bottom == ScaleValues(Inner(i).props.className, << "p","b" >>)
           IN  /\ top = {40}
               /\ bottom = {20}
               /\ \A t \in top : \A b \in bottom : t > b

\* A returned main carries both a pt- and a pb- directive with a numeric
\* argument.
C9_Witness ==
    \E i \in Returned :
        /\ TwoLevels(i)
        /\ ScaleValues(Inner(i).props.className, << "p","t" >>) # {}
        /\ ScaleValues(Inner(i).props.className, << "p","b" >>) # {}

\* C10: two calls whose props have the same children and differ in another
\* property return structurally equal trees, and no other property reaches
\* either element.
C10_OnlyChildrenRead ==
    /\ \A i, j \in Returned :
           (props[i].children = props[j].children /\ props[i].rest # props[j].rest)
               => Structure(result[i]) = Structure(result[j])
    /\ \A i \in Returned :
           /\ TwoLevels(i)
           /\ DOMAIN Outer(i).props \cup DOMAIN Inner(i).props
                = {"className", "children"}

\* Two calls with the same children array, one with and one without the
\* extra property, have both returned.
C10_Witness ==
    \E i, j \in Returned :
        /\ props[i].children = props[j].children
        /\ props[i].children.typeof = "array"
        /\ props[i].rest = {}
        /\ props[j].rest # {}
        /\ TwoLevels(i) /\ TwoLevels(j)

====
